---- MODULE Spec2Model ----
(***************************************************************************)
(* Model of irm (interactive file remover), src/src/main.rs.               *)
(*                                                                         *)
(* The state is the App (selected, hovered, dir_tree, exit), the heap of   *)
(* reference-counted Nodes the tree is made of, the part of the filesystem *)
(* below the working directory, and the position of the run loop.          *)
(* Strings are sequences of one-character strings, so that full_path,      *)
(* str::replace and str::split are computed character by character.        *)
(***************************************************************************)
EXTENDS Integers, Sequences, FiniteSets, TLC

VARIABLES heap, selected, hovered, exit, disk, pc, panic, lastAction, calls, toggled,
          reads, lastRead, toggledAs

vars == <<heap, selected, hovered, exit, disk, pc, panic, lastAction, calls, toggled,
          reads, lastRead, toggledAs>>

(* Cap on the length of App.selected (a Vec, unbounded in the code). *)
MaxSelected == 2

(***************************************************************************)
(* Strings                                                                 *)
(***************************************************************************)
Dot == "."
Slash == "/"

(* str::replace(from, to): non-overlapping matches, left to right. *)
RECURSIVE replace(_, _, _)
replace(s, from, to) ==
    IF Len(s) < Len(from) THEN s
    ELSE IF SubSeq(s, 1, Len(from)) = from
         THEN to \o replace(SubSeq(s, Len(from) + 1, Len(s)), from, to)
         ELSE <<Head(s)>> \o replace(Tail(s), from, to)

(* str::split(sep) for a one-character separator: the sequence of segments, *)
(* empty segments included.                                                 *)
RECURSIVE split_from(_, _, _, _)
split_from(s, sep, cur, out) ==
    IF s = <<>> THEN Append(out, cur)
    ELSE IF Head(s) = sep
         THEN split_from(Tail(s), sep, <<>>, Append(out, cur))
         ELSE split_from(Tail(s), sep, Append(cur, Head(s)), out)

split(s, sep) == split_from(s, sep, <<>>, <<>>)

(***************************************************************************)
(* Nodes: Rc<Node> is a heap address, Weak<Node> an address that upgrades  *)
(* only while the node is allocated.                                       *)
(***************************************************************************)
DirType == {"File", "Dir", "Symlink"}

NoNode == -1

(* DirTree.base_node *)
base_node == 0

(* Node::new *)
Node_new(name, type_) ==
    [name |-> name, type_ |-> type_, parent |-> NoNode, children |-> <<>>]

(* Weak::upgrade *)
upgrade(h, w) == IF w \in DOMAIN h THEN w ELSE NoNode

(* The address a new Rc allocation gets: the lowest free one. *)
alloc(h) == CHOOSE i \in 0..Cardinality(DOMAIN h) :
                /\ i \notin DOMAIN h
                /\ \A j \in 0..Cardinality(DOMAIN h) : j \notin DOMAIN h => i <= j

Range(s) == {s[i] : i \in 1..Len(s)}

(* Nodes kept alive by strong references: the tree's root, the entries of  *)
(* App.selected, and the children lists of live nodes.                     *)
RECURSIVE reach(_, _)
reach(h, set) ==
    LET next == set \cup UNION {Range(h[n].children) : n \in set}
    IN IF next = set THEN set ELSE reach(h, next)

(* Dropping the last strong reference frees a node (and, through its       *)
(* children Vec, its subtree); a Weak to a freed node no longer upgrades.  *)
drop_unreferenced(h, sel) ==
    LET live == reach(h, {base_node} \cup Range(sel))
    IN [n \in live |-> [h[n] EXCEPT !.parent = IF h[n].parent \in live
                                                 THEN h[n].parent ELSE NoNode]]

(* Slip: the child's parent reference is not set. *)
add_child_NoBackReference(h, parent, child) ==
    [h EXCEPT ![parent].children = Append(@, child)]

(* Node::add_child *)
add_child(h, parent, child) ==
    [h EXCEPT ![parent].children = Append(@, child),
              ![child].parent = parent]

(* Node::full_path *)
RECURSIVE full_path(_, _)
full_path(h, n) ==
    IF upgrade(h, h[n].parent) = NoNode
    THEN h[n].name
    ELSE full_path(h, upgrade(h, h[n].parent)) \o <<Slash>> \o h[n].name

(* Node::to_array and its loop over the children *)
RECURSIVE Node_to_array(_, _, _)
RECURSIVE Node_to_array_children(_, _, _)
(* Slip: the node's own path is pushed after its children's. *)
Node_to_array_PostOrder(h, n, array) ==
    Append(Node_to_array_children(h, h[n].children, array), full_path(h, n))

Node_to_array(h, n, array) ==
    Node_to_array_children(h, h[n].children, Append(array, full_path(h, n)))

Node_to_array_children(h, cs, array) ==
    IF cs = <<>> THEN array
    ELSE Node_to_array_children(h, Tail(cs), Node_to_array(h, Head(cs), array))

(* DirTree::to_array *)
to_array(h) == Node_to_array(h, base_node, <<>>)

(* The for loop of DirTree::find_node: walk the children name by name. *)
RECURSIVE find_node_walk(_, _, _)
find_node_walk(h, node, names) ==
    IF names = <<>> THEN node
    ELSE LET children == h[node].children
             hits == {i \in 1..Len(children) : h[children[i]].name = Head(names)}
         IN IF hits = {} THEN NoNode
            ELSE LET first == CHOOSE i \in hits : \A j \in hits : i <= j
                 IN find_node_walk(h, children[first], Tail(names))

(* Slip: the path "." is walked like any other path. *)
find_node_NoDotCase(h, path) ==
    find_node_walk(h, base_node, split(replace(path, <<Dot, Slash>>, <<>>), Slash))

(* DirTree::find_node; NoNode stands for None *)
find_node(h, path) ==
    IF path = <<Dot>> THEN base_node
    ELSE find_node_walk(h, base_node, split(replace(path, <<Dot, Slash>>, <<>>), Slash))

(* Node::is_selected / Node::is_parent_selected *)
RECURSIVE is_selected(_, _, _)
RECURSIVE is_parent_selected(_, _, _)
(* Slip: the selection of the parent is not inherited. *)
is_parent_selected_NoInherit(h, selected_nodes, n) == FALSE

is_parent_selected(h, selected_nodes, n) ==
    IF upgrade(h, h[n].parent) = NoNode THEN FALSE
    ELSE is_selected(h, selected_nodes, upgrade(h, h[n].parent))

is_selected(h, selected_nodes, n) ==
    \E i \in 1..Len(selected_nodes) :
        \/ full_path(h, selected_nodes[i]) = full_path(h, n)
        \/ is_parent_selected(h, selected_nodes, n)

(* Node::to_enriched_array and its loop over the children *)
RECURSIVE Node_to_enriched_array(_, _, _, _, _, _)
RECURSIVE Node_to_enriched_array_children(_, _, _, _, _, _)
Node_to_enriched_array(h, n, items, selected_nodes, depth, is_last) ==
    LET tuple == [name |-> h[n].name, type_ |-> h[n].type_, depth |-> depth,
                  is_last |-> is_last,
                  is_selected |-> is_selected(h, selected_nodes, n)]
    IN Node_to_enriched_array_children(h, h[n].children, 1, Append(items, tuple),
                                       selected_nodes, depth)

(* Slip: the last-sibling test is off by one. *)
Node_to_enriched_array_children_OffByOne(h, children, i, items, selected_nodes, depth) ==
    IF i > Len(children) THEN items
    ELSE Node_to_enriched_array_children(h, children, i + 1,
             Node_to_enriched_array(h, children[i], items, selected_nodes,
                                    depth + 1, i + 1 = Len(children)),
             selected_nodes, depth)

Node_to_enriched_array_children(h, children, i, items, selected_nodes, depth) ==
    IF i > Len(children) THEN items
    ELSE Node_to_enriched_array_children(h, children, i + 1,
             Node_to_enriched_array(h, children[i], items, selected_nodes,
                                    depth + 1, i = Len(children)),
             selected_nodes, depth)

(* Slip: the root is given depth 1. *)
to_enriched_array_DepthFromOne(h, selected_nodes) ==
    Node_to_enriched_array(h, base_node, <<>>, selected_nodes, 1, FALSE)

(* DirTree::to_enriched_array *)
to_enriched_array(h, selected_nodes) ==
    Node_to_enriched_array(h, base_node, <<>>, selected_nodes, 0, FALSE)

(***************************************************************************)
(* The filesystem below the working directory: the entries in the order    *)
(* read_dir enumerates them.  A "Symlink" entry is a link whose target is  *)
(* not a directory.                                                        *)
(***************************************************************************)
Entry(path, kind) == [path |-> path, kind |-> kind]

Layout1 == << Entry(<<".", "/", "a">>, "Dir"),
              Entry(<<".", "/", "a", "/", "c">>, "File"),
              Entry(<<".", "/", "b">>, "File"),
              Entry(<<".", "/", "c">>, "File") >>

Layout2 == << Entry(<<".", "/", "a", ".">>, "Dir"),
              Entry(<<".", "/", "a", ".", "/", "b">>, "File"),
              Entry(<<".", "/", "a", "b">>, "File") >>

Layout3 == << Entry(<<".", "/", "s">>, "Symlink"),
              Entry(<<".", "/", "d">>, "Dir") >>

Layouts == {Layout1, Layout2, Layout3}

is_prefix(p, s) == Len(p) <= Len(s) /\ SubSeq(s, 1, Len(p)) = p

(* Path::file_name *)
file_name(path) == LET segs == split(path, Slash) IN segs[Len(segs)]

(* Is there an entry at this path?  "." is the working directory itself. *)
fs_kind(d, path) ==
    IF path = <<Dot>> THEN "Dir"
    ELSE IF \E i \in 1..Len(d) : d[i].path = path
         THEN (CHOOSE e \in Range(d) : e.path = path).kind
         ELSE "Absent"

(* fs::read_dir: the immediate entries of the directory at path *)
read_dir(d, path) ==
    LET inside(e) == /\ is_prefix(path \o <<Slash>>, e.path)
                     /\ Len(e.path) > Len(path) + 1
                     /\ Slash \notin Range(SubSeq(e.path, Len(path) + 2, Len(e.path)))
    IN SelectSeq(d, inside)

(* fs::remove_dir_all *)
remove_dir_all(d, path) ==
    LET kept(e) == e.path # path /\ ~is_prefix(path \o <<Slash>>, e.path)
    IN SelectSeq(d, kept)

(* fs::remove_file *)
remove_file(d, path) ==
    LET kept(e) == e.path # path
    IN SelectSeq(d, kept)

(* The classification in Node::scan_dir: is_dir, else is_symlink, else File *)
classify(kind) ==
    IF kind = "Dir" THEN "Dir" ELSE IF kind = "Symlink" THEN "Symlink" ELSE "File"

(* The for loop of Node::scan_dir over entries 1..upto *)
RECURSIVE scan_dir_entries(_, _, _, _, _)
scan_dir_entries(h, node, entries, i, upto) ==
    IF i > upto THEN h
    ELSE LET child == alloc(h)
             name == file_name(entries[i].path)
             h1 == [n \in DOMAIN h \cup {child} |->
                       IF n = child THEN Node_new(name, classify(entries[i].kind))
                       ELSE h[n]]
         IN scan_dir_entries(add_child(h1, node, child), node, entries, i + 1, upto)

(* Node::scan_dir.  ioFail = 0: every call succeeds; 1: read_dir fails;    *)
(* k + 1: the k-th entry of the iterator is an Err.                        *)
scan_dir(h, d, node, ioFail) ==
    LET path == full_path(h, node)
        entries == read_dir(d, path)
    IN IF fs_kind(d, path) # "Dir" \/ ioFail = 1
       THEN [heap |-> h, ok |-> FALSE]
       ELSE IF ioFail >= 2 /\ ioFail - 1 <= Len(entries)
            THEN [heap |-> scan_dir_entries(h, node, entries, 1, ioFail - 2), ok |-> FALSE]
            ELSE [heap |-> scan_dir_entries(h, node, entries, 1, Len(entries)), ok |-> TRUE]

(* The detachment in DirTree::remove_node: retain(|c| c.name != node.name) *)
retain_children(h, parent, node) ==
    LET keep(c) == h[c].name # h[node].name
    IN [h EXCEPT ![parent].children = SelectSeq(@, keep)]

(* DirTree::remove_node.  fsOk: the delete call is permitted by the        *)
(* filesystem.  outcome "ok" and "root" are normal returns; the others are  *)
(* the panics of unwrap() and todo!().                                      *)
remove_node(h, d, sel, path, fsOk) ==
    LET node == find_node(h, path)
    IN IF node = NoNode
       THEN [heap |-> h, disk |-> d,
             call |-> [arg |-> path, target |-> <<>>, outcome |-> "unwrap_none"]]
       ELSE LET parent == upgrade(h, h[node].parent)
                target == full_path(h, node)
            IN IF parent = NoNode
               THEN [heap |-> h, disk |-> d,
                     call |-> [arg |-> path, target |-> target, outcome |-> "root"]]
               ELSE LET h1 == retain_children(h, parent, node)
                        type_ == h[node].type_
                        kind == fs_kind(d, full_path(h1, node))
                    IN IF type_ = "Symlink"
                       THEN [heap |-> h1, disk |-> d,
                             call |-> [arg |-> path, target |-> target, outcome |-> "todo"]]
                       ELSE IF type_ = "Dir" /\ fsOk /\ kind \in {"Dir", "Symlink"}
                       THEN [heap |-> drop_unreferenced(h1, sel),
                             disk |-> remove_dir_all(d, full_path(h1, node)),
                             call |-> [arg |-> path, target |-> target, outcome |-> "ok"]]
                       ELSE IF type_ = "File" /\ fsOk /\ kind \in {"File", "Symlink"}
                       THEN [heap |-> drop_unreferenced(h1, sel),
                             disk |-> remove_file(d, full_path(h1, node)),
                             call |-> [arg |-> path, target |-> target, outcome |-> "ok"]]
                       ELSE [heap |-> h1, disk |-> d,
                             call |-> [arg |-> path, target |-> target, outcome |-> "io_delete"]]

Returned(outcome) == outcome \in {"ok", "root"}

(* The for_each of App::handle_clear_all; the ioFail-th delete is refused  *)
(* by the filesystem (0: none).                                            *)
RECURSIVE clear_all_loop(_, _, _, _, _, _)
clear_all_loop(h, d, sel, i, ioFail, done) ==
    IF i > Len(sel) THEN [heap |-> h, disk |-> d, calls |-> done]
    ELSE LET r == remove_node(h, d, sel, full_path(h, sel[i]), i # ioFail)
         IN IF Returned(r.call.outcome)
            THEN clear_all_loop(r.heap, r.disk, sel, i + 1, ioFail, Append(done, r.call))
            ELSE [heap |-> r.heap, disk |-> r.disk, calls |-> Append(done, r.call)]

(***************************************************************************)
(* The application                                                         *)
(***************************************************************************)
NoToggle == [path |-> <<>>, before |-> {}]

(* The full paths of the entries of a selection *)
SelPaths(h, sel) == {full_path(h, sel[i]) : i \in 1..Len(sel)}

(* App::default and the start of App::run *)
Init ==
    /\ heap = [n \in {base_node} |-> Node_new(<<Dot>>, "Dir")]
    /\ selected = <<>>
    /\ hovered = 0
    /\ exit = FALSE
    /\ disk \in Layouts
    /\ pc = "draw"
    /\ panic = "none"
    /\ lastAction = "none"
    /\ calls = <<>>
    /\ toggled = NoToggle
    /\ reads = {}
    /\ lastRead = <<>>
    /\ toggledAs = <<>>

(* The while condition of App::run, evaluated after a handler returned *)
LoopBack(ex) == IF ex THEN "done" ELSE "draw"

(* The entries of s at the positions where the entry of sel has a full    *)
(* path other than path: what retain keeps.                               *)
RECURSIVE KeepWhere(_, _, _, _)
KeepWhere(h, s, sel, path) ==
    IF sel = <<>> THEN <<>>
    ELSE IF full_path(h, Head(sel)) # path
         THEN <<Head(s)>> \o KeepWhere(h, Tail(s), Tail(sel), path)
         ELSE KeepWhere(h, Tail(s), Tail(sel), path)

(* A handler that makes no read_dir call *)
NoRead ==
    /\ lastRead' = <<>>
    /\ UNCHANGED reads

(* A panic unwinds out of run: nothing runs afterwards *)
Panic(reason, action) ==
    /\ pc' = "panicked"
    /\ panic' = reason
    /\ lastAction' = action

(* App::draw.  render_stateful_widget takes the ListState mutably: the     *)
(* list widget may move an out-of-range selection to the last row.         *)
draw ==
    /\ pc = "draw"
    /\ pc' = "handle_events"
    /\ \E clamp \in BOOLEAN :
          hovered' = IF clamp /\ hovered >= Len(to_array(heap))
                     THEN Len(to_array(heap)) - 1 ELSE hovered
    /\ UNCHANGED <<heap, selected, exit, disk, panic, lastAction, calls, toggled,
                   reads, lastRead, toggledAs>>

(* App::handle_exit *)
handle_exit ==
    /\ pc = "handle_events"
    /\ exit' = TRUE
    /\ pc' = LoopBack(exit')
    /\ lastAction' = "exit"
    /\ calls' = <<>>
    /\ toggled' = NoToggle
    /\ NoRead
    /\ UNCHANGED <<heap, selected, hovered, disk, panic, toggledAs>>

(* The arms of handle_events / handle_key_event that do nothing *)
handle_other ==
    /\ pc = "handle_events"
    /\ pc' = LoopBack(exit)
    /\ lastAction' = "other"
    /\ calls' = <<>>
    /\ toggled' = NoToggle
    /\ NoRead
    /\ UNCHANGED <<heap, selected, hovered, exit, disk, panic, toggledAs>>

(* App::handle_select_dir *)
handle_select_dir ==
    /\ pc = "handle_events"
    /\ LET arr == to_array(heap)
           idx == hovered
       IN IF idx >= Len(arr)
          THEN /\ Panic("index", "select")
               /\ toggled' = NoToggle
               /\ UNCHANGED <<selected, toggledAs>>
          ELSE LET node_path == arr[idx + 1]
                   node == find_node(heap, node_path)
                   differs(x) == full_path(heap, x) # node_path
               IN IF node = NoNode
                  THEN /\ Panic("unwrap_none", "select")
                       /\ toggled' = NoToggle
                       /\ UNCHANGED <<selected, toggledAs>>
                  ELSE /\ IF \E i \in 1..Len(selected) :
                                   full_path(heap, selected[i]) = node_path
                          THEN /\ selected' = SelectSeq(selected, differs)
                               /\ toggledAs' = KeepWhere(heap, toggledAs, selected, node_path)
                          ELSE /\ Len(selected) < MaxSelected
                               /\ selected' = Append(selected, node)
                               /\ toggledAs' = Append(toggledAs, node_path)
                       /\ toggled' = [path |-> node_path,
                                      before |-> SelPaths(heap, selected)]
                       /\ pc' = LoopBack(exit)
                       /\ lastAction' = "select"
                       /\ UNCHANGED panic
    /\ heap' = drop_unreferenced(heap, selected')
    /\ calls' = <<>>
    /\ NoRead
    /\ UNCHANGED <<hovered, exit, disk>>

(* App::handle_open_dir *)
handle_open_dir ==
    /\ pc = "handle_events"
    /\ LET arr == to_array(heap)
           idx == hovered
       IN IF idx >= Len(arr)
          THEN /\ Panic("index", "open")
               /\ NoRead
               /\ UNCHANGED heap
          ELSE LET node_path == arr[idx + 1]
                   node == find_node(heap, node_path)
               IN IF node = NoNode
                  THEN /\ Panic("unwrap_none", "open")
                       /\ NoRead
                       /\ UNCHANGED heap
                  ELSE IF heap[node].children = <<>> /\ heap[node].type_ = "Dir"
                       THEN \E ioFail \in 0..(Len(read_dir(disk, full_path(heap, node))) + 1) :
                               LET r == scan_dir(heap, disk, node, ioFail)
                               IN /\ heap' = r.heap
                                  /\ lastRead' = full_path(heap, node)
                                  /\ IF r.ok
                                     THEN /\ pc' = LoopBack(exit)
                                          /\ lastAction' = "open"
                                          /\ reads' = reads \cup {full_path(heap, node)}
                                          /\ UNCHANGED panic
                                     ELSE /\ Panic("io_read", "open")
                                          /\ UNCHANGED reads
                       ELSE /\ pc' = LoopBack(exit)
                            /\ lastAction' = "open"
                            /\ NoRead
                            /\ UNCHANGED <<heap, panic>>
    /\ calls' = <<>>
    /\ toggled' = NoToggle
    /\ UNCHANGED <<selected, hovered, exit, disk, toggledAs>>

(* Slip: moving down stops at the last row instead of wrapping. *)
handle_hover_down_Saturates ==
    /\ pc = "handle_events"
    /\ hovered' = IF hovered >= Len(to_array(heap)) - 1 THEN hovered ELSE hovered + 1
    /\ pc' = LoopBack(exit)
    /\ lastAction' = "down"
    /\ calls' = <<>>
    /\ toggled' = NoToggle
    /\ NoRead
    /\ UNCHANGED <<heap, selected, exit, disk, panic, toggledAs>>

(* App::handle_hover_down *)
handle_hover_down ==
    /\ pc = "handle_events"
    /\ hovered' = IF hovered >= Len(to_array(heap)) - 1 THEN 0 ELSE hovered + 1
    /\ pc' = LoopBack(exit)
    /\ lastAction' = "down"
    /\ calls' = <<>>
    /\ toggled' = NoToggle
    /\ NoRead
    /\ UNCHANGED <<heap, selected, exit, disk, panic, toggledAs>>

(* Slip: moving the cursor up drops the selection. *)
handle_hover_up_Deselects ==
    /\ pc = "handle_events"
    /\ hovered' = IF hovered = 0 THEN Len(to_array(heap)) - 1 ELSE hovered - 1
    /\ pc' = LoopBack(exit)
    /\ lastAction' = "up"
    /\ calls' = <<>>
    /\ toggled' = NoToggle
    /\ NoRead
    /\ selected' = <<>>
    /\ toggledAs' = <<>>
    /\ heap' = drop_unreferenced(heap, <<>>)
    /\ UNCHANGED <<exit, disk, panic>>

(* App::handle_hover_up *)
handle_hover_up ==
    /\ pc = "handle_events"
    /\ hovered' = IF hovered = 0 THEN Len(to_array(heap)) - 1 ELSE hovered - 1
    /\ pc' = LoopBack(exit)
    /\ lastAction' = "up"
    /\ calls' = <<>>
    /\ toggled' = NoToggle
    /\ NoRead
    /\ UNCHANGED <<heap, selected, exit, disk, panic, toggledAs>>

(* App::handle_clear_hovered *)
handle_clear_hovered ==
    /\ pc = "handle_events"
    /\ LET arr == to_array(heap)
           idx == hovered
       IN IF idx >= Len(arr)
          THEN /\ Panic("index", "clear_hovered")
               /\ calls' = <<>>
               /\ UNCHANGED <<heap, disk>>
          ELSE \E fsOk \in BOOLEAN :
                  LET r == remove_node(heap, disk, selected, arr[idx + 1], fsOk)
                  IN /\ heap' = r.heap
                     /\ disk' = r.disk
                     /\ calls' = <<r.call>>
                     /\ IF Returned(r.call.outcome)
                        THEN /\ pc' = LoopBack(exit)
                             /\ lastAction' = "clear_hovered"
                             /\ UNCHANGED panic
                        ELSE Panic(r.call.outcome, "clear_hovered")
    /\ toggled' = NoToggle
    /\ NoRead
    /\ UNCHANGED <<selected, hovered, exit, toggledAs>>

(* App::handle_clear_all *)
handle_clear_all ==
    /\ pc = "handle_events"
    /\ \E ioFail \in 0..Len(selected) :
          LET r == clear_all_loop(heap, disk, selected, 1, ioFail, <<>>)
              last == IF r.calls = <<>> THEN "ok" ELSE r.calls[Len(r.calls)].outcome
          IN /\ heap' = r.heap
             /\ disk' = r.disk
             /\ calls' = r.calls
             /\ IF Returned(last)
                THEN /\ pc' = LoopBack(exit)
                     /\ lastAction' = "clear_all"
                     /\ UNCHANGED panic
                ELSE Panic(last, "clear_all")
    /\ toggled' = NoToggle
    /\ NoRead
    /\ UNCHANGED <<selected, hovered, exit, toggledAs>>

(* App::run: draw, then one event through handle_key_event *)
Next ==
    \/ draw
    \/ handle_exit
    \/ handle_other
    \/ handle_select_dir
    \/ handle_open_dir
    \/ handle_hover_down
    \/ handle_hover_up
    \/ handle_clear_hovered
    \/ handle_clear_all

Spec == Init /\ [][Next]_vars

(* The same program started in a working directory where no name ends in  *)
(* a dot.                                                                  *)
InitPlain ==
    /\ Init
    /\ disk \in {Layout1, Layout3}

SpecPlain == InitPlain /\ [][Next]_vars

TypeOK ==
    /\ pc \in {"draw", "handle_events", "done", "panicked"}
    /\ panic \in {"none", "index", "unwrap_none", "io_read", "io_delete", "todo"}
    /\ hovered \in Nat
    /\ exit \in BOOLEAN
    /\ Len(selected) <= MaxSelected
    /\ Range(selected) \subseteq DOMAIN heap
    /\ base_node \in DOMAIN heap

(***************************************************************************)
(* Properties                                                              *)
(***************************************************************************)
(* The nodes of the tree: reachable from the root through children lists *)
TreeNodes == reach(heap, {base_node})

(* The nodes of the subtree of m, m included *)
Subtree(m) == reach(heap, {m})

(* The number of tree nodes strictly above n *)
AncestorCount(n) == Cardinality({m \in TreeNodes : m # n /\ n \in Subtree(m)})

(* The selections the flattening is compared under *)
SomeSelections == {<<>>, selected} \cup {<<n>> : n \in TreeNodes}

(* The row of to_array that holds the full path of node n *)
RowOf(n) == CHOOSE i \in 1..Len(to_array(heap)) : to_array(heap)[i] = full_path(heap, n)

(* C1: in every reachable state the cursor index is strictly less than the *)
(* length of flatten_paths().                                              *)
C1_CursorInRange ==
    pc \in {"draw", "handle_events"} => hovered < Len(to_array(heap))

(* C2: flatten_paths() and flatten_enriched(S) have the same length, and   *)
(* row i of the enriched sequence carries the name (last path segment),    *)
(* the kind and the depth (number of ancestors) of the one node whose full *)
(* path is flatten_paths()[i].                                             *)
C2_FlattenParallel ==
    \A S \in SomeSelections :
        LET arr == to_array(heap)
            rows == to_enriched_array(heap, S)
        IN /\ Len(arr) = Len(rows)
           /\ \A i \in 1..Len(arr) :
                 LET at == {n \in TreeNodes : full_path(heap, n) = arr[i]}
                 IN /\ Cardinality(at) = 1
                    /\ \A n \in at :
                          /\ rows[i].name = file_name(arr[i])
                          /\ rows[i].type_ = heap[n].type_
                          /\ rows[i].depth = AncestorCount(n)

C2_Witness ==
    /\ pc = "draw"
    /\ selected # <<>>
    /\ \E i \in 1..Len(to_enriched_array(heap, selected)) :
          to_enriched_array(heap, selected)[i].depth = 2
    /\ lastAction = "clear_hovered"

(* C3: after remove(path) returned normally on a non-root node, lookup(path) *)
(* returns nothing and flatten_paths() holds neither path nor any path that  *)
(* starts with path + "/".                                                   *)
C3_RemovedGone ==
    \A k \in 1..Len(calls) :
        calls[k].outcome = "ok" =>
            /\ find_node(heap, calls[k].arg) = NoNode
            /\ \A i \in 1..Len(to_array(heap)) :
                  /\ to_array(heap)[i] # calls[k].arg
                  /\ ~is_prefix(calls[k].arg \o <<Slash>>, to_array(heap)[i])

(* C4: the effective-selection flag of a tree node is true exactly when the *)
(* full path of the node or of one of its ancestors is the full path of an  *)
(* entry of the selection.                                                   *)
C4_EffectiveSelection ==
    LET rows == to_enriched_array(heap, selected)
    IN \A n \in TreeNodes :
          LET expected == \E m \in TreeNodes :
                              /\ n \in Subtree(m)
                              /\ full_path(heap, m) \in SelPaths(heap, selected)
          IN /\ is_selected(heap, selected, n) = expected
             /\ rows[RowOf(n)].is_selected = expected

C4_Witness ==
    /\ lastAction = "open"
    /\ pc = "draw"
    /\ \E n \in TreeNodes :
          /\ is_selected(heap, selected, n)
          /\ full_path(heap, n) \notin SelPaths(heap, selected)
          /\ n \notin Range(selected)

(* C5: for every node n reachable from the root, lookup(full_path(n)) is n. *)
C5_LookupFullPath ==
    \A n \in TreeNodes : find_node(heap, full_path(heap, n)) = n

(* C6: toggling the same path twice in a row leaves the selection, as a set *)
(* of full paths, as it was before the first toggle.                        *)
C6_ToggleTwice ==
    [][ ( /\ pc = "handle_events"
          /\ lastAction = "select"
          /\ lastAction' = "select"
          /\ pc' # "panicked"
          /\ toggled'.path = toggled.path )
        => SelPaths(heap', selected') = toggled.before ]_vars

(* C7: when the filesystem delete of remove(path) fails, the node is still *)
(* attached to its parent, so flatten_paths() still holds its path.        *)
C7_FailedDeleteKeepsNode ==
    \A k \in 1..Len(calls) :
        calls[k].outcome = "io_delete" =>
            \E i \in 1..Len(to_array(heap)) : to_array(heap)[i] = calls[k].target

(* C8: a failed read-directory or delete call does not terminate the       *)
(* application: the loop goes on and the exit flag stays false.            *)
C8_FailureRecoverable ==
    panic \in {"io_read", "io_delete"} => pc # "panicked"

(* C9: when 'remove all selected' has completed, the selection is empty. *)
C9_ClearAllEmpties ==
    (lastAction = "clear_all" /\ pc # "panicked") => selected = <<>>

(* C10: in every non-empty children list exactly one child has the         *)
(* last-sibling flag in flatten_enriched, the final one; the root's row    *)
(* never has it.                                                           *)
C10_LastSibling ==
    LET rows == to_enriched_array(heap, selected)
    IN /\ rows[1].is_last = FALSE
       /\ \A n \in TreeNodes :
             LET cs == heap[n].children
             IN {k \in 1..Len(cs) : rows[RowOf(cs[k])].is_last} =
                    IF cs = <<>> THEN {} ELSE {Len(cs)}

C10_Witness ==
    /\ lastAction = "clear_hovered"
    /\ pc = "draw"
    /\ \E k \in 1..Len(calls) : calls[k].outcome = "ok"
    /\ hovered >= Len(to_array(heap))
    /\ Len(heap[base_node].children) >= 2

(* The names of a sequence of nodes, and the file names of a sequence of  *)
(* filesystem entries                                                      *)
NamesOf(cs) == [k \in 1..Len(cs) |-> heap[cs[k]].name]

FileNamesOf(es) == [k \in 1..Len(es) |-> file_name(es[k].path)]

(* C11: flatten_paths() is the pre-order depth-first linearisation: the    *)
(* root first, every node immediately followed by its whole subtree, the   *)
(* children's subtrees in the order of the children list, which is the     *)
(* order read_dir enumerated them in (never sorted).                       *)
C11_PreOrder ==
    LET arr == to_array(heap)
    IN /\ arr[1] = full_path(heap, base_node)
       /\ Len(arr) = Cardinality(TreeNodes)
       /\ \A n \in TreeNodes :
             LET cs == heap[n].children
             IN /\ \A k \in 1..Len(cs) :
                      RowOf(cs[k]) = RowOf(n) + 1 +
                          Cardinality(UNION {Subtree(cs[j]) : j \in 1..(k - 1)})
                /\ (cs # <<>> /\ pc # "panicked") =>
                      NamesOf(cs) = FileNamesOf(read_dir(disk, full_path(heap, n)))
       /\ (disk = Layout3 /\ pc # "panicked" /\ Len(arr) = 3) =>
             arr = << <<".">>, <<".", "/", "s">>, <<".", "/", "d">> >>

C11_Witness ==
    /\ pc = "draw"
    /\ Len(to_array(heap)) = 5
    /\ to_array(heap)[3] = <<".", "/", "a", "/", "c">>

(* C12: with the cursor at an in-range index i and L rows, 'move down'     *)
(* sets it to (i + 1) mod L and 'move up' to (i - 1) mod L.                *)
C12_CursorWraps ==
    [][ LET L == Len(to_array(heap))
        IN (pc = "handle_events" /\ hovered < L) =>
              /\ lastAction' = "down" => hovered' = (hovered + 1) % L
              /\ lastAction' = "up" => hovered' = (hovered + L - 1) % L ]_vars

C12_Witness ==
    /\ lastAction = "down"
    /\ hovered = 0
    /\ Len(to_array(heap)) >= 3

(* The type of the tree node whose full path is path *)
TypeAt(path) == heap[CHOOSE n \in TreeNodes : full_path(heap, n) = path].type_

(* C13: an expand on a directory that has been scanned before (also one    *)
(* found empty, or emptied by removals since), or on a File or Symlink,    *)
(* makes no read_dir call and leaves the tree unchanged.                   *)
C13_ScanOnce ==
    [][ LET arr == to_array(heap)
        IN ( /\ pc = "handle_events"
             /\ lastAction' = "open"
             /\ hovered < Len(arr)
             /\ find_node(heap, arr[hovered + 1]) # NoNode
             /\ arr[hovered + 1] \in reads \/ TypeAt(arr[hovered + 1]) # "Dir" )
           => (lastRead' = <<>> /\ to_array(heap') = arr) ]_vars

(* What a handler that does nothing leaves as it was *)
NothingHappened ==
    /\ heap' = heap
    /\ disk' = disk
    /\ selected' = selected
    /\ hovered' = hovered
    /\ pc' # "panicked"

(* C14: remove applied to the root's path is a no-op: the tree, the        *)
(* filesystem, the selection and the cursor stay as they were, for 'remove *)
(* hovered' with the cursor on the root and for 'remove all selected' with *)
(* the root in the selection.                                              *)
C14_RootRemoveNoOp ==
    [][ /\ \A fsOk \in BOOLEAN :
              LET r == remove_node(heap, disk, selected, <<Dot>>, fsOk)
              IN r.heap = heap /\ r.disk = disk /\ r.call.outcome = "root"
        /\ (pc = "handle_events" /\ lastAction' = "clear_hovered" /\ hovered = 0)
              => NothingHappened
        /\ ( /\ pc = "handle_events"
             /\ lastAction' = "clear_all"
             /\ SelPaths(heap, selected) = {<<Dot>>} )
              => NothingHappened ]_vars

C14_Witness ==
    /\ lastAction = "clear_all"
    /\ pc = "draw"
    /\ Len(calls) = 1
    /\ calls[1].outcome = "root"
    /\ Len(to_array(heap)) >= 3

(* C15: 'remove all selected' deletes only filesystem entries at, or       *)
(* beneath, a path that was toggled into the selection.                    *)
C15_DeletesOnlyToggled ==
    lastAction = "clear_all" =>
        \A k \in 1..Len(calls) :
            calls[k].outcome = "ok" =>
                \E i \in 1..Len(toggledAs) :
                    \/ calls[k].target = toggledAs[i]
                    \/ is_prefix(toggledAs[i] \o <<Slash>>, calls[k].target)

(* C16: 'remove all selected' completes for every reachable selection      *)
(* (the filesystem permitting the deletes), and afterwards no path of the   *)
(* selection other than the root resolves by lookup.                        *)
C16_ClearAllCompletes ==
    (lastAction = "clear_all" /\ panic \notin {"io_delete", "todo"}) =>
        /\ pc # "panicked"
        /\ \A p \in SelPaths(heap, selected) :
              p = <<Dot>> \/ find_node(heap, p) = NoNode

(* C17: remove applied to a Symlink node fails as an error result and has  *)
(* no effect: the node is still in the tree and its filesystem entry still *)
(* exists.                                                                 *)
C17_SymlinkRemoveRefused ==
    \A k \in 1..Len(calls) :
        calls[k].outcome = "todo" =>
            /\ \E i \in 1..Len(to_array(heap)) : to_array(heap)[i] = calls[k].target
            /\ fs_kind(disk, calls[k].target) = "Symlink"
            /\ pc # "panicked"

(* One leading "./" stripped *)
StripLeading(p) ==
    IF is_prefix(<<Dot, Slash>>, p) THEN SubSeq(p, 3, Len(p)) ELSE p

(* The paths lookup is tried on: the rows, the selection's paths, and      *)
(* every path of the working directory (scanned or not)                    *)
Probes ==
    Range(to_array(heap)) \cup SelPaths(heap, selected)
        \cup {e.path : e \in Range(Layout1) \cup Range(Layout2) \cup Range(Layout3)}

(* The node below the root whose chain of names is the segments of p, if   *)
(* there is one                                                            *)
NodeNamed(p) ==
    LET at == {n \in TreeNodes \ {base_node} :
                  full_path(heap, n) = <<Dot, Slash>> \o StripLeading(p)}
    IN IF at = {} THEN NoNode ELSE CHOOSE n \in at : TRUE

(* C18: lookup(path) returns the node whose chain of names from a child of *)
(* the root is the segments of path after one leading "./" is stripped,    *)
(* and nothing when there is no such node.                                 *)
C18_LookupBySegments ==
    \A p \in Probes : p # <<Dot>> => find_node(heap, p) = NodeNamed(p)

(* The number of parent references followed from n until none is left, and *)
(* the node that walk ends at                                               *)
RECURSIVE ParentSteps(_)
ParentSteps(n) ==
    IF upgrade(heap, heap[n].parent) = NoNode THEN 0
    ELSE 1 + ParentSteps(upgrade(heap, heap[n].parent))

RECURSIVE TopOf(_)
TopOf(n) ==
    IF upgrade(heap, heap[n].parent) = NoNode THEN n
    ELSE TopOf(upgrade(heap, heap[n].parent))

(* C19: the root has no parent reference; every other tree node is in      *)
(* exactly one children list, once, its parent reference points to the     *)
(* owner of that list, and following parent references reaches the root in *)
(* as many steps as the node has ancestors.                                *)
C19_WellFormed ==
    /\ heap[base_node].parent = NoNode
    /\ \A n \in TreeNodes \ {base_node} :
          LET holders == {m \in TreeNodes : n \in Range(heap[m].children)}
          IN /\ Cardinality(holders) = 1
             /\ \A m \in holders :
                   /\ upgrade(heap, heap[n].parent) = m
                   /\ Cardinality({k \in 1..Len(heap[m].children) :
                                       heap[m].children[k] = n}) = 1
             /\ TopOf(n) = base_node
             /\ ParentSteps(n) = AncestorCount(n)

C19_Witness ==
    /\ pc = "draw"
    /\ lastAction = "clear_hovered"
    /\ \E k \in 1..Len(calls) : calls[k].outcome = "ok"
    /\ \E n \in TreeNodes : AncestorCount(n) = 2

(* C20: toggle and cursor moves leave the tree and the filesystem as they  *)
(* were, toggle leaves the cursor, expand and cursor moves leave the       *)
(* selection, and only the two remove actions delete filesystem entries.   *)
C20_Frame ==
    [][ pc = "handle_events" =>
          /\ lastAction' \in {"select", "up", "down"} =>
                /\ to_array(heap') = to_array(heap)
                /\ to_enriched_array(heap', <<>>) = to_enriched_array(heap, <<>>)
                /\ disk' = disk
          /\ lastAction' = "select" => hovered' = hovered
          /\ lastAction' \in {"open", "up", "down"} => selected' = selected
          /\ disk' # disk => lastAction' \in {"clear_hovered", "clear_all"} ]_vars

C20_Witness ==
    /\ pc = "draw"
    /\ lastAction = "up"
    /\ selected # <<>>
    /\ hovered = Len(to_array(heap)) - 1
    /\ hovered >= 2

====
